---- MODULE Spec2Model ----
(***************************************************************************)
(* Model of scripts/verify_launch.py: the pre-launch backend health check. *)
(*                                                                         *)
(* main() walks a fixed table of endpoint descriptors; for each one it     *)
(* calls check_endpoint(), which builds a Request, calls                   *)
(* urlopen(req, timeout=10) and turns the response or the exception into   *)
(* an (ok, message) pair; main() then bumps one of three counters.  After  *)
(* the table it prints the summary and returns the exit code.              *)
(*                                                                         *)
(* Strings the code formats or searches are sequences of one-character     *)
(* strings, so that f-string formatting is concatenation and               *)
(* `"Protected" in status` is a real substring search.                     *)
(***************************************************************************)
EXTENDS Integers, Sequences, FiniteSets, TLC

VARIABLES
    backend,    \* how the service under test behaves during this run
    base,       \* args.backend after rstrip("/")
    pc,         \* position of the single thread of control
    idx,        \* 1-based position in `endpoints` of the current descriptor
    passed,     \* main: passed
    protected,  \* main: protected
    failed,     \* main: failed
    elapsed,    \* seconds the pending blocking socket operation has waited
    outcome,    \* what the body of the try block produced for this descriptor
    result,     \* what check_endpoint did with it: returned pair or raised
    calls,      \* per descriptor: number of check_endpoint invocations
    sent,       \* per descriptor: number of urlopen calls
    inflight,   \* number of requests currently in flight
    exit_code   \* value returned by main (NoExit until it returns)

vars == <<backend, base, pc, idx, passed, protected, failed, elapsed,
          outcome, result, calls, sent, inflight, exit_code>>

----------------------------------------------------------------------------
(* String literals of the source and texts supplied by the environment.    *)

STR_OK_OPEN ==
    <<"O", "K", " ", "(">>
STR_PROTECTED_OPEN ==
    <<"P", "r", "o", "t", "e", "c", "t", "e", "d", " ", "(">>
STR_CLOSE ==
    <<")">>
STR_HTTP ==
    <<"H", "T", "T", "P", " ">>
STR_COLON ==
    <<":", " ">>
STR_CONNECTION_FAILED ==
    <<"C", "o", "n", "n", "e", "c", "t", "i", "o", "n", " ", "f", "a", "i",
      "l", "e", "d", ":", " ">>
STR_PROTECTED ==
    <<"P", "r", "o", "t", "e", "c", "t", "e", "d">>

\* HTTP reason phrases a server may send (the server chooses them freely).
R_OK ==
    <<"O", "K">>
R_UNAUTHORIZED ==
    <<"U", "n", "a", "u", "t", "h", "o", "r", "i", "z", "e", "d">>
R_NOT_FOUND ==
    <<"N", "o", "t", " ", "F", "o", "u", "n", "d">>
R_PROTECTED ==
    <<"P", "r", "o", "t", "e", "c", "t", "e", "d">>

\* str() of the exceptions the socket layer and the URL parser raise.
E_REFUSED ==
    <<"[", "E", "r", "r", "n", "o", " ", "1", "1", "1", "]", " ", "C", "o",
      "n", "n", "e", "c", "t", "i", "o", "n", " ", "r", "e", "f", "u", "s",
      "e", "d">>
E_DNS ==
    <<"[", "E", "r", "r", "n", "o", " ", "-", "2", "]", " ", "N", "a", "m",
      "e", " ", "o", "r", " ", "s", "e", "r", "v", "i", "c", "e", " ", "n",
      "o", "t", " ", "k", "n", "o", "w", "n">>
E_TIMED_OUT ==
    <<"t", "i", "m", "e", "d", " ", "o", "u", "t">>
E_DISCONNECTED ==
    <<"R", "e", "m", "o", "t", "e", " ", "e", "n", "d", " ", "c", "l", "o",
      "s", "e", "d", " ", "c", "o", "n", "n", "e", "c", "t", "i", "o", "n",
      " ", "w", "i", "t", "h", "o", "u", "t", " ", "r", "e", "s", "p", "o",
      "n", "s", "e">>
E_UNKNOWN_URL ==
    <<"u", "n", "k", "n", "o", "w", "n", " ", "u", "r", "l", " ", "t", "y",
      "p", "e">>

ReasonPhrases == {R_OK, R_UNAUTHORIZED, R_NOT_FOUND, R_PROTECTED}

\* Status codes a server may answer with.  urlopen returns a response object
\* for 2xx and raises HTTPError for the others.
StatusCodes == {200, 204, 401, 403, 404, 500}

----------------------------------------------------------------------------
(* String helpers: str(int), `in`, startswith.                             *)

Digits == <<"0", "1", "2", "3", "4", "5", "6", "7", "8", "9">>

RECURSIVE Str(_)
Str(n) ==
    IF n < 10 THEN <<Digits[n + 1]>>
    ELSE Str(n \div 10) \o <<Digits[(n % 10) + 1]>>

Contains(s, sub) ==
    \E k \in 0..(Len(s) - Len(sub)) : SubSeq(s, k + 1, k + Len(sub)) = sub

StartsWith(s, prefix) ==
    /\ Len(s) >= Len(prefix)
    /\ SubSeq(s, 1, Len(prefix)) = prefix

----------------------------------------------------------------------------
(* The endpoint table of main().                                           *)

endpoints == <<
    [method |-> "GET",  path |-> "/health",                         name |-> "Core Health"],
    [method |-> "GET",  path |-> "/api/v1/system/status",           name |-> "System Status"],
    [method |-> "POST", path |-> "/api/v1/users/login",             name |-> "Login Endpoint"],
    [method |-> "GET",  path |-> "/api/v1/users/me",                name |-> "Current User"],
    [method |-> "GET",  path |-> "/api/v1/printers",                name |-> "List Printers"],
    [method |-> "GET",  path |-> "/api/v1/printers/types",          name |-> "Printer Types"],
    [method |-> "GET",  path |-> "/api/v1/business/clients",        name |-> "Clients"],
    [method |-> "GET",  path |-> "/api/v1/business/orders",         name |-> "Orders"],
    [method |-> "GET",  path |-> "/api/v1/business/quotes/pricing-config", name |-> "Pricing Config"],
    [method |-> "GET",  path |-> "/api/v1/scheduling/queue",        name |-> "Job Queue"],
    [method |-> "GET",  path |-> "/api/v1/production/history",      name |-> "Print History"],
    [method |-> "GET",  path |-> "/api/v1/materials/spools",        name |-> "Material Inventory"],
    [method |-> "GET",  path |-> "/api/v1/materials/profiles",      name |-> "Material Profiles"],
    [method |-> "GET",  path |-> "/api/v1/config",                  name |-> "App Config"],
    [method |-> "GET",  path |-> "/api/v1/analytics/energy",        name |-> "Energy Stats"],
    [method |-> "GET",  path |-> "/api/v1/cost/summary",            name |-> "Cost Summary"],
    [method |-> "GET",  path |-> "/api/v1/reports/types",           name |-> "Report Types"],
    [method |-> "GET",  path |-> "/api/v1/maintenance",             name |-> "Maintenance Schedule"],
    [method |-> "GET",  path |-> "/api/v1/chat/history?channel=general&limit=1", name |-> "Chat History"]
>>

NumEndpoints == Len(endpoints)

----------------------------------------------------------------------------
(* urlopen(req, timeout=10): every blocking socket operation gives up      *)
(* after TIMEOUT seconds.                                                  *)

TIMEOUT == 10

\* urlopen called without a timeout.
TimedOutNever(t) == FALSE

TimedOut(t) == t >= TIMEOUT

----------------------------------------------------------------------------
(* Exceptions.  The except clauses of check_endpoint select by class, so   *)
(* the model keeps the class of what was raised and the class hierarchy.   *)

ParentClass ==
    [HTTPError           |-> "URLError",
     URLError            |-> "OSError",
     TimeoutError        |-> "OSError",
     RemoteDisconnected  |-> "ConnectionResetError",
     ConnectionResetError |-> "ConnectionError",
     ConnectionError     |-> "OSError",
     OSError             |-> "Exception",
     ValueError          |-> "Exception",
     Exception           |-> "BaseException"]

RECURSIVE IsInstance(_, _)
IsInstance(cls, target) ==
    IF cls = target THEN TRUE
    ELSE IF cls \in DOMAIN ParentClass THEN IsInstance(ParentClass[cls], target)
    ELSE FALSE

\* Outcomes of the try block (lines 25-28).  cls = "Response" means urlopen
\* returned; otherwise cls is the class of the exception raised.  `cause` is
\* what happened on the wire.
NoOutcome == [cls |-> "None", code |-> 0, text |-> <<>>, cause |-> "none"]

Response(code) ==
    [cls |-> "Response", code |-> code, text |-> <<>>, cause |-> "response"]

HTTPError(code, reason) ==
    [cls |-> "HTTPError", code |-> code, text |-> reason, cause |-> "response"]

URLError(reason, cause) ==
    [cls |-> "URLError", code |-> 0, text |-> reason, cause |-> cause]

Raised(cls, text, cause) ==
    [cls |-> cls, code |-> 0, text |-> text, cause |-> cause]

----------------------------------------------------------------------------
(* check_endpoint: from the outcome of the try block to what the caller    *)
(* sees.  raised = TRUE means no except clause matched and the exception   *)
(* leaves check_endpoint.                                                  *)

Returns(ok, msg) == [raised |-> FALSE, ok |-> ok, msg |-> msg]

Propagates == [raised |-> TRUE, ok |-> FALSE, msg |-> <<>>]

NoResult == [raised |-> FALSE, ok |-> FALSE, msg |-> <<>>]

\* check_endpoint without the final `except Exception` clause.
check_endpoint_NoCatchAll(o) ==
    IF o.cls = "Response"
    THEN Returns(TRUE, STR_OK_OPEN \o Str(o.code) \o STR_CLOSE)
    ELSE IF IsInstance(o.cls, "HTTPError")
    THEN IF o.code \in {401, 403}
         THEN Returns(TRUE, STR_PROTECTED_OPEN \o Str(o.code) \o STR_CLOSE)
         ELSE Returns(FALSE, STR_HTTP \o Str(o.code) \o STR_COLON \o o.text)
    ELSE IF IsInstance(o.cls, "URLError")
    THEN Returns(FALSE, STR_CONNECTION_FAILED \o o.text)
    ELSE Propagates

\* check_endpoint accepting 401 only as auth gating.
check_endpoint_Only401(o) ==
    IF o.cls = "Response"
    THEN Returns(TRUE, STR_OK_OPEN \o Str(o.code) \o STR_CLOSE)
    ELSE IF IsInstance(o.cls, "HTTPError")
    THEN IF o.code \in {401}
         THEN Returns(TRUE, STR_PROTECTED_OPEN \o Str(o.code) \o STR_CLOSE)
         ELSE Returns(FALSE, STR_HTTP \o Str(o.code) \o STR_COLON \o o.text)
    ELSE IF IsInstance(o.cls, "URLError")
    THEN Returns(FALSE, STR_CONNECTION_FAILED \o o.text)
    ELSE IF IsInstance(o.cls, "Exception")
    THEN Returns(FALSE, o.text)
    ELSE Propagates

\* check_endpoint with `except URLError` placed before `except HTTPError`:
\* HTTPError is a URLError, so the first clause takes every HTTP error.
check_endpoint_URLErrorFirst(o) ==
    IF o.cls = "Response"
    THEN Returns(TRUE, STR_OK_OPEN \o Str(o.code) \o STR_CLOSE)
    ELSE IF IsInstance(o.cls, "URLError")
    THEN Returns(FALSE, STR_CONNECTION_FAILED \o o.text)
    ELSE IF IsInstance(o.cls, "HTTPError")
    THEN IF o.code \in {401, 403}
         THEN Returns(TRUE, STR_PROTECTED_OPEN \o Str(o.code) \o STR_CLOSE)
         ELSE Returns(FALSE, STR_HTTP \o Str(o.code) \o STR_COLON \o o.text)
    ELSE IF IsInstance(o.cls, "Exception")
    THEN Returns(FALSE, o.text)
    ELSE Propagates

check_endpoint(o) ==
    IF o.cls = "Response"
    THEN Returns(TRUE, STR_OK_OPEN \o Str(o.code) \o STR_CLOSE)
    ELSE IF IsInstance(o.cls, "HTTPError")
    THEN IF o.code \in {401, 403}
         THEN Returns(TRUE, STR_PROTECTED_OPEN \o Str(o.code) \o STR_CLOSE)
         ELSE Returns(FALSE, STR_HTTP \o Str(o.code) \o STR_COLON \o o.text)
    ELSE IF IsInstance(o.cls, "URLError")
    THEN Returns(FALSE, STR_CONNECTION_FAILED \o o.text)
    ELSE IF IsInstance(o.cls, "Exception")
    THEN Returns(FALSE, o.text)
    ELSE Propagates

----------------------------------------------------------------------------
(* main: classification of one check, loop advance and exit code.          *)

\* main without `failed += 1` in the else branch.
Bucket_ForgetsFailed(ok, status) ==
    IF ok
    THEN IF Contains(status, STR_PROTECTED) THEN "protected" ELSE "passed"
    ELSE "none"

\* main without the `"Protected" in status` test.
Bucket_NoProtected(ok, status) ==
    IF ok THEN "passed" ELSE "failed"

\* main testing `"Protected" in status` before `ok`.
Bucket_IgnoresOk(ok, status) ==
    IF Contains(status, STR_PROTECTED) THEN "protected"
    ELSE IF ok THEN "passed"
    ELSE "failed"

Bucket(ok, status) ==
    IF ok
    THEN IF Contains(status, STR_PROTECTED) THEN "protected" ELSE "passed"
    ELSE "failed"

\* A loop that repeats the descriptor whose check failed.
NextIndex_RetryFailed(i, ok) == IF ok THEN i + 1 ELSE i

NextIndex(i, ok) == i + 1

\* main returning the number of failures as the exit code.
ExitCode_FailedCount(f) == f

ExitCode(f) == IF f = 0 THEN 0 ELSE 1

NoExit == -1

----------------------------------------------------------------------------
(* The run.                                                                *)

\* Values of --backend.  Request(url) raises ValueError("unknown url type")
\* when the URL has no scheme.
DefaultBase == "http://localhost:5000"

Bases == {DefaultBase, "example.com"}

UrlType(b) == IF b = DefaultBase THEN "http" ELSE "None"

\* Behaviours of the service under test:
\*   "any"          every outcome is possible on every request;
\*   "healthy"      answers 200 to every GET and 401 to the login POST;
\*   "unreachable"  no connection can be established.
Backends == {"any", "healthy", "unreachable"}

\* Caps that keep the counters finite (never reached by the code as written).
MaxElapsed == 12

MaxCalls == 2

Init ==
    /\ backend \in Backends
    /\ base \in Bases
    /\ (backend = "any" \/ base = DefaultBase)
    /\ pc = "loop"
    /\ idx = 1
    /\ passed = 0
    /\ protected = 0
    /\ failed = 0
    /\ elapsed = 0
    /\ outcome = NoOutcome
    /\ result = NoResult
    /\ calls = [k \in 1..NumEndpoints |-> 0]
    /\ sent = [k \in 1..NumEndpoints |-> 0]
    /\ inflight = 0
    /\ exit_code = NoExit

\* The try block ends with outcome o: check_endpoint returns a pair, or the
\* exception leaves check_endpoint and main and the interpreter exits with 1.
Finish(o) ==
    LET r == check_endpoint(o) IN
    /\ outcome' = o
    /\ result' = r
    /\ pc' = IF r.raised THEN "aborted" ELSE "returned"
    /\ exit_code' = IF r.raised THEN 1 ELSE exit_code
    /\ elapsed' = 0
    /\ inflight' = 0

\* for ... in endpoints: check_endpoint(base, path, method) up to urlopen.
Issue ==
    /\ pc = "loop"
    /\ idx <= NumEndpoints
    /\ calls[idx] < MaxCalls
    /\ calls' = [calls EXCEPT ![idx] = @ + 1]
    /\ IF UrlType(base) = "None"
       THEN /\ Finish(Raised("ValueError", E_UNKNOWN_URL, "bad_url"))
            /\ UNCHANGED sent
       ELSE /\ sent' = [sent EXCEPT ![idx] = @ + 1]
            /\ inflight' = inflight + 1
            /\ pc' = "connecting"
            /\ elapsed' = 0
            /\ UNCHANGED <<outcome, result, exit_code>>
    /\ UNCHANGED <<backend, base, idx, passed, protected, failed>>

\* One second passes while a socket operation blocks.
Tick ==
    /\ pc \in {"connecting", "waiting"}
    /\ ~TimedOut(elapsed)
    /\ elapsed < MaxElapsed
    /\ (backend = "healthy" => elapsed + 1 < TIMEOUT)
    /\ elapsed' = elapsed + 1
    /\ UNCHANGED <<backend, base, pc, idx, passed, protected, failed,
                   outcome, result, calls, sent, inflight, exit_code>>

\* Name resolution fails or the connection is refused: h.request raises
\* OSError, which do_open wraps in URLError.
ConnectFail ==
    /\ pc = "connecting"
    /\ backend # "healthy"
    /\ \E c \in {"dns", "refused"} :
         Finish(URLError(IF c = "dns" THEN E_DNS ELSE E_REFUSED, c))
    /\ UNCHANGED <<backend, base, idx, passed, protected, failed, calls, sent>>

\* The timeout expires while connecting or sending: wrapped in URLError.
ConnectTimeout ==
    /\ pc = "connecting"
    /\ backend # "healthy"
    /\ TimedOut(elapsed)
    /\ Finish(URLError(E_TIMED_OUT, "connect_timeout"))
    /\ UNCHANGED <<backend, base, idx, passed, protected, failed, calls, sent>>

\* The connection is established and the request is sent.
Connected ==
    /\ pc = "connecting"
    /\ backend # "unreachable"
    /\ elapsed < TIMEOUT
    /\ pc' = "waiting"
    /\ elapsed' = 0
    /\ UNCHANGED <<backend, base, idx, passed, protected, failed, outcome,
                   result, calls, sent, inflight, exit_code>>

\* The status line arrives: urlopen returns the response for 2xx and raises
\* HTTPError for every other status.
Respond ==
    /\ pc = "waiting"
    /\ elapsed < TIMEOUT
    /\ \E code \in StatusCodes, reason \in ReasonPhrases :
         /\ backend = "healthy" =>
              /\ code = (IF endpoints[idx].method = "GET" THEN 200 ELSE 401)
              /\ reason = (IF code = 200 THEN R_OK ELSE R_UNAUTHORIZED)
         /\ code \in 200..299 => reason = R_OK
         /\ Finish(IF code \in 200..299 THEN Response(code)
                   ELSE HTTPError(code, reason))
    /\ UNCHANGED <<backend, base, idx, passed, protected, failed, calls, sent>>

\* The timeout expires while h.getresponse() waits for the status line:
\* the socket's TimeoutError is raised as it is.
ReadTimeout ==
    /\ pc = "waiting"
    /\ backend = "any"
    /\ TimedOut(elapsed)
    /\ Finish(Raised("TimeoutError", E_TIMED_OUT, "read_timeout"))
    /\ UNCHANGED <<backend, base, idx, passed, protected, failed, calls, sent>>

\* The server closes the connection without answering: h.getresponse()
\* raises RemoteDisconnected as it is.
Disconnect ==
    /\ pc = "waiting"
    /\ backend = "any"
    /\ elapsed < TIMEOUT
    /\ Finish(Raised("RemoteDisconnected", E_DISCONNECTED, "disconnected"))
    /\ UNCHANGED <<backend, base, idx, passed, protected, failed, calls, sent>>

\* main, lines 100-111: one counter is bumped, the line is printed and the
\* loop moves on.
Classify ==
    /\ pc = "returned"
    /\ LET b == Bucket(result.ok, result.msg) IN
         /\ passed' = passed + (IF b = "passed" THEN 1 ELSE 0)
         /\ protected' = protected + (IF b = "protected" THEN 1 ELSE 0)
         /\ failed' = failed + (IF b = "failed" THEN 1 ELSE 0)
    /\ idx' = NextIndex(idx, result.ok)
    /\ pc' = "loop"
    /\ outcome' = NoOutcome
    /\ result' = NoResult
    /\ UNCHANGED <<backend, base, elapsed, calls, sent, inflight, exit_code>>

\* main, lines 113-121: the summary and the return value.
Summary ==
    /\ pc = "loop"
    /\ idx > NumEndpoints
    /\ exit_code' = ExitCode(failed)
    /\ pc' = "done"
    /\ UNCHANGED <<backend, base, idx, passed, protected, failed, elapsed,
                   outcome, result, calls, sent, inflight>>

Next ==
    \/ Issue
    \/ Tick
    \/ ConnectFail
    \/ ConnectTimeout
    \/ Connected
    \/ Respond
    \/ ReadTimeout
    \/ Disconnect
    \/ Classify
    \/ Summary

Spec == Init /\ [][Next]_vars

\* Steps of the checking process itself: the interpreter keeps running and
\* the socket timer keeps counting.
ClientStep ==
    \/ Issue
    \/ Tick
    \/ ConnectTimeout
    \/ ReadTimeout
    \/ Classify
    \/ Summary

\* A healthy backend accepts and answers every request.
ServerAnswers == backend = "healthy" /\ (Connected \/ Respond)

LiveSpec ==
    /\ Init
    /\ [][Next]_vars
    /\ WF_vars(ClientStep)
    /\ WF_vars(ServerAnswers)

TypeOK ==
    /\ backend \in Backends
    /\ base \in Bases
    /\ pc \in {"loop", "connecting", "waiting", "returned", "aborted", "done"}
    /\ idx \in 1..(NumEndpoints + 1)
    /\ passed \in 0..NumEndpoints
    /\ protected \in 0..NumEndpoints
    /\ failed \in 0..NumEndpoints
    /\ elapsed \in 0..TIMEOUT
    /\ inflight \in 0..1
    /\ exit_code \in {NoExit, 0, 1}

----------------------------------------------------------------------------
(* Properties.                                                             *)

Total == passed + protected + failed

\* Descriptors whose check has been classified by main.
Checked ==
    Cardinality({k \in 1..NumEndpoints : calls[k] > 0})
      - (IF pc \in {"connecting", "waiting", "returned"} THEN 1 ELSE 0)

\* Messages as the claims spell them.
MSG_PROTECTED_401 ==
    <<"P", "r", "o", "t", "e", "c", "t", "e", "d", " ", "(", "4", "0", "1", ")">>
MSG_PROTECTED_403 ==
    <<"P", "r", "o", "t", "e", "c", "t", "e", "d", " ", "(", "4", "0", "3", ")">>
MSG_HTTP_404 ==
    <<"H", "T", "T", "P", " ", "4", "0", "4", ":", " ">>
MSG_HTTP_500 ==
    <<"H", "T", "T", "P", " ", "5", "0", "0", ":", " ">>
MSG_CONNECTION_FAILED ==
    <<"C", "o", "n", "n", "e", "c", "t", "i", "o", "n", " ", "f", "a", "i",
      "l", "e", "d", ":", " ">>
MSG_OK ==
    <<"O", "K">>

\* C1: in every reachable state passed + protected + failed equals the number
\* of descriptors checked so far, and when main has returned the sum is 19.
C1_CountersSumToChecked ==
    /\ Total = Checked
    /\ pc = "done" => Total = 19

C1_Witness ==
    /\ pc = "done"
    /\ passed > 0
    /\ protected > 0
    /\ failed > 0

\* C2: main returns 0 exactly when failed = 0 (every endpoint passed or
\* protected), 1 exactly when failed >= 1, and nothing else.
C2_ExitCodeIffNoFailure ==
    pc = "done" =>
        /\ exit_code \in {0, 1}
        /\ exit_code = 0 <=> failed = 0
        /\ exit_code = 0 <=> passed + protected = NumEndpoints
        /\ exit_code = 1 <=> failed >= 1

C2_Witness ==
    /\ pc = "done"
    /\ failed = 2
    /\ exit_code = 1

\* C3: whatever the request produced, check_endpoint returns a pair and never
\* lets the error out, and a run that ends has checked every descriptor once.
C3_ErrorsCaughtPerEndpoint ==
    /\ pc # "aborted"
    /\ ~result.raised
    /\ pc = "returned" /\ outcome.cls # "Response" =>
          \/ result.ok = FALSE
          \/ outcome.code \in {401, 403}
    /\ pc = "loop" /\ idx <= NumEndpoints => ENABLED Issue
    /\ pc = "done" => \A k \in 1..NumEndpoints : calls[k] = 1

C3_Witness ==
    /\ pc = "connecting"
    /\ idx = NumEndpoints
    /\ failed = NumEndpoints - 1

\* C4: on every descriptor a 401 or 403 answer gives ok = TRUE with the
\* message "Protected (<code>)", which is neither a failure nor "OK".
C4_AuthStatusIsProtected ==
    pc = "returned" /\ outcome.code \in {401, 403} =>
        /\ result.ok = TRUE
        /\ result.msg = (IF outcome.code = 401 THEN MSG_PROTECTED_401
                         ELSE MSG_PROTECTED_403)
        /\ ~StartsWith(result.msg, MSG_OK)

C4_Witness ==
    /\ pc = "returned"
    /\ outcome.code = 403
    /\ endpoints[idx].method = "GET"
    /\ result.ok

\* C5: an HTTP error whose status is neither 401 nor 403 gives ok = FALSE
\* with the message "HTTP <code>: <reason phrase>", and main counts the
\* endpoint as failed.
C5_HttpErrorFails ==
    [][ pc = "returned" /\ outcome.cls = "HTTPError"
          /\ outcome.code \notin {401, 403} =>
            /\ outcome.code \in {404, 500}
            /\ result.ok = FALSE
            /\ result.msg = (IF outcome.code = 500 THEN MSG_HTTP_500
                             ELSE MSG_HTTP_404) \o outcome.text
            /\ failed' = failed + 1
            /\ passed' = passed
            /\ protected' = protected ]_vars

C5_Witness ==
    /\ pc = "returned"
    /\ outcome.code = 500
    /\ outcome.text = R_NOT_FOUND
    /\ ~result.ok

\* C6: every connection-level failure (name resolution, refused connection,
\* timeout while connecting or while waiting for the response) gives
\* ok = FALSE with a message "Connection failed: <reason>", never the bare
\* string of the catch-all branch.
C6_ConnectionFailuresPrefixed ==
    pc = "returned"
      /\ outcome.cause \in {"dns", "refused", "connect_timeout", "read_timeout"}
    =>
        /\ result.ok = FALSE
        /\ result.msg = MSG_CONNECTION_FAILED \o outcome.text

C8_EndToEnd ==
    /\ pc = "done" /\ backend = "healthy" =>
          /\ passed = 18
          /\ protected = 1
          /\ failed = 0
          /\ exit_code = 0
    /\ pc = "done" /\ backend = "unreachable" =>
          /\ passed = 0
          /\ protected = 0
          /\ failed = 19
          /\ exit_code = 1

C8_Witness ==
    /\ pc = "done"
    /\ backend = "healthy"
    /\ calls[NumEndpoints] = 1

C10_BucketMatchesOutcome ==
    [][ /\ pc = "returned" =>
            /\ protected' = protected
                 + (IF outcome.code \in {401, 403} THEN 1 ELSE 0)
            /\ passed' = passed
                 + (IF outcome.cls = "Response" THEN 1 ELSE 0)
            /\ failed' = failed
                 + (IF outcome.cls # "Response"
                         /\ outcome.code \notin {401, 403} THEN 1 ELSE 0)
            /\ Total' = Total + 1
        /\ pc # "returned" =>
            /\ passed' = passed
            /\ protected' = protected
            /\ failed' = failed ]_vars

C10_Witness ==
    /\ pc = "returned"
    /\ result.ok = FALSE
    /\ Contains(result.msg, R_PROTECTED)

====
